---- MODULE Spec2Model ----
(***************************************************************************)
(* Model of the website trust analyzer: the five category scorers and the  *)
(* aggregator of analyzers/scoring.py (class TrustScore), the review       *)
(* diversity calculator of analyzers/social_proof.py, the collectors of    *)
(* analyzers/website_security.py and analyzers/social_proof.py, and the    *)
(* orchestration of trust_analyzer.py (TrustAnalyzer.analyze).             *)
(*                                                                         *)
(* Python values.  A dict is a function whose DOMAIN is the set of keys    *)
(* present; d.get(k, default) is Get(d, k, default).  The two entries of   *)
(* security_data are arbitrary Python objects, so they carry their type:   *)
(* [kind |-> "dict", items |-> f] is a dict, any other kind is an object   *)
(* without a .get attribute.  Boolean signals are BOOLEAN; the None that   *)
(* headers.get(k) yields for a missing key is falsy and is written FALSE.  *)
(*                                                                         *)
(* Floats.  normalized_score and diversity_score are kept as exact         *)
(* fractions [num, den].  On every value the code can produce here (raw    *)
(* totals 0..70 over 70, weights and counts of a page) IEEE double         *)
(* arithmetic gives the same comparisons against 60/70/80/90 and the same  *)
(* diversity values as the exact fraction, so no rounding step is lost.    *)
(***************************************************************************)
EXTENDS Integers, Sequences, FiniteSets, TLC

VARIABLES
    pc,                 \* calculate_total_score: "off" | "called" | "returned" | "raised"
    security_data,      \* the five arguments of the call
    review_data,
    business_data,
    content_data,
    transparency_data,
    result,             \* the dict calculate_total_score returned
    scorer_pc,          \* one category scorer: "off" | "called" | "returned" | "raised"
    category,           \* which scorer was called
    signal_data,        \* its argument
    component,          \* the ScoreComponent it returned
    level_pc,           \* _categorize_trust_level: "off" | "called" | "returned"
    level_score,        \* its argument, a fraction
    level_label,        \* the label it returned
    div_pc,             \* _analyze_review_diversity: "off" | "called" | "returned"
    fetch,              \* what session.get(url) and response.text() do
    page_links,         \* the href of each <a href> of the page, in page order
    page_scripts,       \* the src of each <script src> of the page, in page order
    results,            \* the dict _analyze_review_diversity returned
    url,                \* the url argument of TrustAnalyzer.analyze
    run_pc,             \* TrustAnalyzer.analyze: "off" | "security" | "social" | "content"
                        \*     | "map" | "score" | "return" | "done"
    sec_pc,             \* WebsiteSecurityAnalyzer.analyze: "off" | "ssl" | "privacy"
                        \*     | "contact" | "headers"
    soc_pc,             \* SocialProofAnalyzer.analyze: "off" | "team" | "profiles"
                        \*     | "testimonials" | "review_presence"
    target,             \* the url the running analyzer or collector works on
    partial,            \* the entries of the analyzer's results literal evaluated so far
    collector,          \* the path-probing collector that runs, or "none"
    collector_pc,       \* its position: "off" | "loop" | "returned"
    path_i,             \* the index of the path its loop is at
    probe_results,      \* its local results dict
    probes,             \* the probes it made so far: [path, outcome]
    deviations_left,    \* how many more probes may answer otherwise than 404
    security_results,   \* what the three analyzers returned to TrustAnalyzer.analyze
    social_results,
    content_results,
    analysis            \* the dict TrustAnalyzer.analyze returned

total_vars == <<pc, security_data, review_data, business_data, content_data,
                transparency_data, result>>

scorer_vars == <<scorer_pc, category, signal_data, component>>

level_vars == <<level_pc, level_score, level_label>>

diversity_vars == <<div_pc, fetch, page_links, page_scripts, results>>

collector_vars == <<collector, collector_pc, path_i, probe_results, probes,
                    deviations_left>>

analyzer_vars == <<url, run_pc, sec_pc, soc_pc, target, partial, collector_vars,
                   security_results, social_results, content_results, analysis>>

vars == <<total_vars, scorer_vars, level_vars, diversity_vars, analyzer_vars>>

----------------------------------------------------------------------------
(* Python helpers *)

\* dict.get(k, default)
Get(d, k, default) == IF k \in DOMAIN d THEN d[k] ELSE default

EmptyDict == <<>>

PyDict(f) == [kind |-> "dict", items |-> f]

\* an object that is not a mapping (a str, None, a list): it has no .get
PyOther == [kind |-> "str", items |-> EmptyDict]

IsDict(v) == v.kind = "dict"

\* a float as an exact fraction
Frac(n, d) == [num |-> n, den |-> d]

\* x >= k for a fraction x with a positive denominator
FracGE(x, k) == x.num >= k * x.den

\* x >= y for two fractions with positive denominators
FracLeq(x, y) == x.num * y.den <= y.num * x.den

\* x == y for two fractions
FracEq(x, y) == x.num * y.den = y.num * x.den

\* min(x, y)
FracMin(x, y) == IF FracLeq(x, y) THEN x ELSE y

\* x * k and x / k for an integer k > 0
FracTimes(x, k) == Frac(x.num * k, x.den)
FracOver(x, k) == Frac(x.num, x.den * k)

\* x + y
FracPlus(x, y) == Frac(x.num * y.den + y.num * x.den, x.den * y.den)

\* the sequences over S of length at most n
SeqsUpTo(S, n) == UNION {[1..k -> S] : k \in 0..n}

----------------------------------------------------------------------------
(* analyzers/scoring.py *)

ScoreComponent(score, max_score, details, recommendations) ==
    [score |-> score, max_score |-> max_score,
     details |-> details, recommendations |-> recommendations]

HeaderKeys == {"has_hsts", "has_xframe", "has_content_security", "has_xss_protection"}
ReviewKeys == {"has_reviews", "recent_reviews", "diverse_reviews"}
BusinessKeys == {"has_credentials", "contact_verified"}
ContentKeys == {"has_resources", "recent_content", "expert_content"}
TransparencyKeys == {"has_privacy_policy", "has_terms", "clear_pricing"}

ssl_valid_mut(data) ==
    Get(Get(data, "ssl_certificate", PyDict(EmptyDict)).items,
        "status", "None") # "valid"

\* data.get('ssl_certificate', {}).get('status') == 'valid'
ssl_valid(data) ==
    Get(Get(data, "ssl_certificate", PyDict(EmptyDict)).items,
        "status", "None") = "valid"

header_point_mut(headers, k) == IF Get(headers.items, k, FALSE) THEN 0 ELSE 1

\* if headers.get(k): header_score += 1
header_point(headers, k) == IF Get(headers.items, k, FALSE) THEN 1 ELSE 0

header_score_mut(headers) ==
    2 * header_point(headers, "has_hsts") + 2 * header_point(headers, "has_xframe")
    + 2 * header_point(headers, "has_content_security")
    + 2 * header_point(headers, "has_xss_protection")

header_score(headers) ==
    header_point(headers, "has_hsts") + header_point(headers, "has_xframe")
    + header_point(headers, "has_content_security")
    + header_point(headers, "has_xss_protection")

\* The .get calls of calculate_technical_score whose receiver is not a dict
\* raise AttributeError (lines 30 and 40).
technical_raises(data) ==
    \/ ~IsDict(Get(data, "ssl_certificate", PyDict(EmptyDict)))
    \/ ~IsDict(Get(data, "security_headers", PyDict(EmptyDict)))

calculate_technical_score(data) ==
    LET valid == ssl_valid(data)
        headers == Get(data, "security_headers", PyDict(EmptyDict))
        hs == header_score(headers)
        score == (IF valid THEN 5 ELSE 0) + hs + 5
        details == [ssl |-> IF valid THEN "Valid SSL certificate"
                                     ELSE "Missing or invalid SSL certificate",
                    security_headers |-> <<"Implemented", hs, "/4 security headers">>]
        recommendations ==
            (IF valid THEN <<>> ELSE <<"Implement HTTPS with a valid SSL certificate">>)
            \o (IF hs < 4 THEN <<"Implement missing security headers">> ELSE <<>>)
    IN  ScoreComponent(score, 15, details, recommendations)

\* One sub-check of the four flat scorers: if data.get(k, False): score += 5,
\* details[...] = ok   else: recommendations.append(rec), details[...] = bad
check_points_mut(data, k) == IF Get(data, k, TRUE) THEN 5 ELSE 0
check_recs_mut(data, k, rec) == IF Get(data, k, TRUE) THEN <<>> ELSE <<rec>>
check_points(data, k) == IF Get(data, k, FALSE) THEN 5 ELSE 0
check_detail(data, k, ok, bad) == IF Get(data, k, FALSE) THEN ok ELSE bad
check_recs(data, k, rec) == IF Get(data, k, FALSE) THEN <<>> ELSE <<rec>>

calculate_review_score(data) ==
    ScoreComponent(
        check_points(data, "has_reviews")
            + check_points(data, "recent_reviews")
            + check_points(data, "diverse_reviews"),
        15,
        [review_presence |-> check_detail(data, "has_reviews",
                                 "Has user reviews", "No user reviews found"),
         freshness |-> check_detail(data, "recent_reviews",
                                 "Has recent reviews", "No recent reviews"),
         diversity |-> check_detail(data, "diverse_reviews",
                                 "Has diverse reviews", "Limited review diversity")],
        check_recs(data, "has_reviews", "Implement a review system")
            \o check_recs(data, "recent_reviews", "Encourage recent reviews")
            \o check_recs(data, "diverse_reviews",
                          "Encourage reviews from diverse sources"))

calculate_business_verification_score(data) ==
    ScoreComponent(
        check_points(data, "has_credentials")
            + check_points(data, "contact_verified"),
        10,
        [credentials |-> check_detail(data, "has_credentials",
                             "Business credentials verified", "Missing business credentials"),
         contact |-> check_detail(data, "contact_verified",
                             "Contact information verified",
                             "Contact information not verified")],
        check_recs(data, "has_credentials", "Add business verification credentials")
            \o check_recs(data, "contact_verified",
                          "Add verified contact information"))

calculate_content_score(data) ==
    ScoreComponent(
        check_points(data, "has_resources")
            + check_points(data, "recent_content")
            + check_points(data, "expert_content"),
        15,
        [resources |-> check_detail(data, "has_resources",
                             "Quality resources present", "Missing or low-quality resources"),
         freshness |-> check_detail(data, "recent_content",
                             "Content is up to date", "Content needs updating"),
         expertise |-> check_detail(data, "expert_content",
                             "Expert content present", "Missing expert content")],
        check_recs(data, "has_resources",
                   "Add high-quality resources and documentation")
            \o check_recs(data, "recent_content", "Update content regularly")
            \o check_recs(data, "expert_content", "Add expert-level content"))

calculate_transparency_score(data) ==
    ScoreComponent(
        check_points(data, "has_privacy_policy")
            + check_points(data, "has_terms")
            + check_points(data, "clear_pricing"),
        15,
        [privacy |-> check_detail(data, "has_privacy_policy",
                             "Clear privacy policy", "Missing privacy policy"),
         terms |-> check_detail(data, "has_terms",
                             "Clear terms and conditions", "Missing terms and conditions"),
         pricing |-> check_detail(data, "clear_pricing",
                             "Clear pricing information", "Unclear pricing information")],
        check_recs(data, "has_privacy_policy", "Add clear privacy policy")
            \o check_recs(data, "has_terms", "Add clear terms and conditions")
            \o check_recs(data, "clear_pricing",
                          "Add clear pricing information"))

categorize_trust_level_mut(score) ==
    IF score.num > 90 * score.den THEN "Exceptional Trust"
    ELSE IF FracGE(score, 80) THEN "High Trust"
    ELSE IF FracGE(score, 70) THEN "Good Trust"
    ELSE IF FracGE(score, 60) THEN "Moderate Trust"
    ELSE "Needs Improvement"

\* _categorize_trust_level(score), score a fraction
categorize_trust_level(score) ==
    IF FracGE(score, 90) THEN "Exceptional Trust"
    ELSE IF FracGE(score, 80) THEN "High Trust"
    ELSE IF FracGE(score, 70) THEN "Good Trust"
    ELSE IF FracGE(score, 60) THEN "Moderate Trust"
    ELSE "Needs Improvement"

\* components.values() iterates in insertion order
ComponentOrder == <<"technical_security", "reviews_ratings", "business_verification",
                    "content_quality", "transparency">>

RECURSIVE SumScores(_, _)
SumScores(components, i) ==
    IF i > Len(ComponentOrder) THEN 0
    ELSE components[ComponentOrder[i]].score + SumScores(components, i + 1)

RECURSIVE SumMaxScores_mut(_, _)
SumMaxScores_mut(components, i) ==
    IF i >= Len(ComponentOrder) THEN 0
    ELSE components[ComponentOrder[i]].max_score + SumMaxScores_mut(components, i + 1)

RECURSIVE SumMaxScores(_, _)
SumMaxScores(components, i) ==
    IF i > Len(ComponentOrder) THEN 0
    ELSE components[ComponentOrder[i]].max_score + SumMaxScores(components, i + 1)

RECURSIVE ExtendAll_mut(_, _)
ExtendAll_mut(components, i) ==
    IF i > Len(ComponentOrder) THEN <<>>
    ELSE ExtendAll_mut(components, i + 1) \o components[ComponentOrder[i]].recommendations

RECURSIVE ExtendAll(_, _)
ExtendAll(components, i) ==
    IF i > Len(ComponentOrder) THEN <<>>
    ELSE components[ComponentOrder[i]].recommendations \o ExtendAll(components, i + 1)

calculate_total_score(sec, rev, bus, con, tra) ==
    LET components ==
            [technical_security |-> calculate_technical_score(sec),
             reviews_ratings |-> calculate_review_score(rev),
             business_verification |-> calculate_business_verification_score(bus),
             content_quality |-> calculate_content_score(con),
             transparency |-> calculate_transparency_score(tra)]
        total_score == SumScores(components, 1)
        max_possible == SumMaxScores(components, 1)
        \* (total_score / max_possible) * 100
        normalized_score == Frac(total_score * 100, max_possible)
    IN  [total_score |-> normalized_score,
         trust_level |-> categorize_trust_level(normalized_score),
         components |-> components,
         recommendations |-> ExtendAll(components, 1)]

----------------------------------------------------------------------------
(* Inputs *)

\* every dict over the keys K with boolean values, each key present or absent
Mappings(K) == UNION {[S -> BOOLEAN] : S \in SUBSET K}

\* the dicts over K with every key present, and the empty dict
FullOrEmpty(K) == [K -> BOOLEAN] \cup {EmptyDict}

SslDicts == {PyDict(EmptyDict), PyDict([status |-> "valid"]), PyDict([status |-> "invalid"])}

\* security_data with each of its two keys absent or holding one of the values
SecurityDataOver(sslValues, headerValues) ==
    {a @@ b : a \in {EmptyDict} \cup {[ssl_certificate |-> v] : v \in sslValues},
              b \in {EmptyDict} \cup {[security_headers |-> h] : h \in headerValues}}

\* Arguments of calculate_total_score: in each dict every signal is present
\* (true or false) or the dict is empty; either entry of security_data may be
\* missing.
TotalSecurityInputs ==
    SecurityDataOver(SslDicts, {PyDict(h) : h \in FullOrEmpty(HeaderKeys)})

\* Arguments of a single scorer: every combination of present/absent keys.
ScorerSecurityInputs ==
    SecurityDataOver(SslDicts, {PyDict(h) : h \in Mappings(HeaderKeys)})

\* ... and with entries of security_data that are not dicts.
MalformedSecurityInputs ==
    SecurityDataOver(SslDicts \cup {PyOther},
                     {PyDict(h) : h \in Mappings(HeaderKeys)} \cup {PyOther})

NoResult == [total_score |-> Frac(0, 1), trust_level |-> "none",
             components |-> EmptyDict, recommendations |-> <<>>]

NoComponent == ScoreComponent(0, 0, EmptyDict, <<>>)

----------------------------------------------------------------------------
(* TrustScore keeps no state between calls (score_weights is never read),  *)
(* so a behaviour is one call: the initial state holds the arguments of a  *)
(* pending call and the action is the call.                                *)

NoCall == pc = "off" /\ security_data = EmptyDict /\ review_data = EmptyDict
          /\ business_data = EmptyDict /\ content_data = EmptyDict
          /\ transparency_data = EmptyDict /\ result = NoResult

NoScorerCall == scorer_pc = "off" /\ category = "none" /\ signal_data = EmptyDict
                /\ component = NoComponent

NoLevelCall == level_pc = "off" /\ level_score = Frac(0, 1) /\ level_label = "none"

NoDiversityCall == div_pc = "off" /\ fetch = "none" /\ page_links = <<>>
                   /\ page_scripts = <<>> /\ results = EmptyDict

NoCollectorCall == collector = "none" /\ collector_pc = "off" /\ path_i = 0
                   /\ probe_results = EmptyDict /\ probes = <<>>

NoAnalyzerRun == url = "none" /\ run_pc = "off" /\ sec_pc = "off" /\ soc_pc = "off"
                 /\ target = "none" /\ partial = EmptyDict /\ NoCollectorCall
                 /\ deviations_left = 0 /\ security_results = EmptyDict
                 /\ social_results = EmptyDict /\ content_results = EmptyDict
                 /\ analysis = EmptyDict

----------------------------------------------------------------------------
(* calculate_total_score(security_data, review_data, business_data,       *)
(* content_data, transparency_data)                                        *)

InitTotal ==
    /\ pc = "called"
    /\ security_data \in TotalSecurityInputs
    /\ review_data \in FullOrEmpty(ReviewKeys)
    /\ business_data \in FullOrEmpty(BusinessKeys)
    /\ content_data \in FullOrEmpty(ContentKeys)
    /\ transparency_data \in FullOrEmpty(TransparencyKeys)
    /\ result = NoResult
    /\ NoScorerCall
    /\ NoLevelCall
    /\ NoDiversityCall
    /\ NoAnalyzerRun

CalculateTotalScore ==
    /\ pc = "called"
    /\ IF technical_raises(security_data)
         THEN pc' = "raised" /\ result' = NoResult
         ELSE /\ pc' = "returned"
              /\ result' = calculate_total_score(security_data, review_data,
                               business_data, content_data, transparency_data)
    /\ UNCHANGED <<security_data, review_data, business_data, content_data,
                   transparency_data>>
    /\ UNCHANGED <<scorer_vars, level_vars, diversity_vars, analyzer_vars>>

\* _categorize_trust_level(score) called on its own, on the scores 0.00, 0.01, ...
MaxScoreHundredths == 10000

InitLevel ==
    /\ level_pc = "called"
    /\ level_score \in {Frac(n, 100) : n \in 0..MaxScoreHundredths}
    /\ level_label = "none"
    /\ NoCall
    /\ NoScorerCall
    /\ NoDiversityCall
    /\ NoAnalyzerRun

CategorizeTrustLevel ==
    /\ level_pc = "called"
    /\ level_label' = categorize_trust_level(level_score)
    /\ level_pc' = "returned"
    /\ UNCHANGED <<level_score, total_vars, scorer_vars, diversity_vars, analyzer_vars>>

Init == InitLevel \/ InitTotal

Next == CategorizeTrustLevel \/ CalculateTotalScore

Spec == Init /\ [][Next]_vars

----------------------------------------------------------------------------
(* One category scorer called on its own *)

ScorerInputs(securityInputs) ==
    {<<"technical_security", d>> : d \in securityInputs}
    \cup {<<"reviews_ratings", d>> : d \in Mappings(ReviewKeys)}
    \cup {<<"business_verification", d>> : d \in Mappings(BusinessKeys)}
    \cup {<<"content_quality", d>> : d \in Mappings(ContentKeys)}
    \cup {<<"transparency", d>> : d \in Mappings(TransparencyKeys)}

InitScorerOver(securityInputs) ==
    /\ scorer_pc = "called"
    /\ \E call \in ScorerInputs(securityInputs) :
            category = call[1] /\ signal_data = call[2]
    /\ component = NoComponent
    /\ NoCall
    /\ NoLevelCall
    /\ NoDiversityCall
    /\ NoAnalyzerRun

CallTechnical ==
    /\ scorer_pc = "called"
    /\ category = "technical_security"
    /\ IF technical_raises(signal_data)
         THEN scorer_pc' = "raised" /\ component' = NoComponent
         ELSE /\ scorer_pc' = "returned"
              /\ component' = calculate_technical_score(signal_data)
    /\ UNCHANGED <<category, signal_data, total_vars, level_vars, diversity_vars,
                   analyzer_vars>>

CallReview ==
    /\ scorer_pc = "called"
    /\ category = "reviews_ratings"
    /\ scorer_pc' = "returned"
    /\ component' = calculate_review_score(signal_data)
    /\ UNCHANGED <<category, signal_data, total_vars, level_vars, diversity_vars,
                   analyzer_vars>>

CallBusiness ==
    /\ scorer_pc = "called"
    /\ category = "business_verification"
    /\ scorer_pc' = "returned"
    /\ component' = calculate_business_verification_score(signal_data)
    /\ UNCHANGED <<category, signal_data, total_vars, level_vars, diversity_vars,
                   analyzer_vars>>

CallContent ==
    /\ scorer_pc = "called"
    /\ category = "content_quality"
    /\ scorer_pc' = "returned"
    /\ component' = calculate_content_score(signal_data)
    /\ UNCHANGED <<category, signal_data, total_vars, level_vars, diversity_vars,
                   analyzer_vars>>

CallTransparency ==
    /\ scorer_pc = "called"
    /\ category = "transparency"
    /\ scorer_pc' = "returned"
    /\ component' = calculate_transparency_score(signal_data)
    /\ UNCHANGED <<category, signal_data, total_vars, level_vars, diversity_vars,
                   analyzer_vars>>

NextScorer ==
    \/ CallTechnical
    \/ CallReview
    \/ CallBusiness
    \/ CallContent
    \/ CallTransparency

\* every combination of present/absent keys and true/false values
InitScorer == InitScorerOver(ScorerSecurityInputs)

SpecScorer == InitScorer /\ [][NextScorer]_vars

\* ... and entries of security_data of another type than dict
InitMalformed == InitScorerOver(MalformedSecurityInputs)

SpecMalformed == InitMalformed /\ [][NextScorer]_vars

----------------------------------------------------------------------------
(* analyzers/social_proof.py: the review platform catalog and              *)
(* _analyze_review_diversity                                               *)

review_platforms ==
    [trustpilot |-> [domain |-> "trustpilot.com", weight |-> 5,
                     patterns |-> <<"trustpilot\\.com/review", "trustpilot\\.com/evaluate">>],
     google |-> [domain |-> "google.com", weight |-> 4,
                 patterns |-> <<"google\\.com/business", "google\\.com/maps/place",
                                "reviews\\?hl=">>],
     yelp |-> [domain |-> "yelp.com", weight |-> 3,
               patterns |-> <<"yelp\\.com/biz", "yelp\\.com/business">>],
     bbb |-> [domain |-> "bbb.org", weight |-> 4,
              patterns |-> <<"bbb\\.org/business-reviews", "bbb\\.org/us/">>],
     sitejabber |-> [domain |-> "sitejabber.com", weight |-> 3,
                     patterns |-> <<"sitejabber\\.com/reviews">>],
     capterra |-> [domain |-> "capterra.com", weight |-> 3,
                   patterns |-> <<"capterra\\.com/reviews", "capterra\\.com/software">>],
     g2 |-> [domain |-> "g2.com", weight |-> 4,
             patterns |-> <<"g2\\.com/products">>],
     facebook |-> [domain |-> "facebook.com", weight |-> 2,
                   patterns |-> <<"facebook\\.com/.*/reviews",
                                  "facebook\\.com/pg/.*/reviews">>]]

\* self.review_platforms.items() iterates in insertion order
PlatformOrder == <<"trustpilot", "google", "yelp", "bbb", "sitejabber", "capterra",
                   "g2", "facebook">>

\* The hrefs a page may hold.  One is in upper case; one matches two patterns
\* of google, one two patterns of facebook, one a google pattern on another
\* site, one nothing.
Hrefs ==
    {"https://www.trustpilot.com/review/example.com",
     "https://www.google.com/maps/place/example/reviews?hl=en",
     "https://www.yelp.com/biz/example",
     "HTTPS://WWW.YELP.COM/BIZ/EXAMPLE",
     "https://www.bbb.org/us/ca/example",
     "https://www.g2.com/products/example/reviews",
     "https://www.facebook.com/pg/example/reviews",
     "https://example.com/reviews?hl=en",
     "https://example.com/about"}

ScriptSrcs ==
    {"https://widget.trustpilot.com/bootstrap.js",
     "https://www.google.com/recaptcha/api.js",
     "https://cdn.example.com/app.js"}

\* str.lower() on these strings
lower(s) ==
    IF s = "HTTPS://WWW.YELP.COM/BIZ/EXAMPLE" THEN "https://www.yelp.com/biz/example"
    ELSE s

\* re.search(pattern, href) is a match: Python's re on the catalog's patterns
\* and the hrefs above (every other pair does not match)
re_search(pattern, href) ==
    <<pattern, href>> \in
        {<<"trustpilot\\.com/review", "https://www.trustpilot.com/review/example.com">>,
         <<"google\\.com/maps/place",
           "https://www.google.com/maps/place/example/reviews?hl=en">>,
         <<"reviews\\?hl=", "https://www.google.com/maps/place/example/reviews?hl=en">>,
         <<"reviews\\?hl=", "https://example.com/reviews?hl=en">>,
         <<"yelp\\.com/biz", "https://www.yelp.com/biz/example">>,
         <<"bbb\\.org/us/", "https://www.bbb.org/us/ca/example">>,
         <<"g2\\.com/products", "https://www.g2.com/products/example/reviews">>,
         <<"facebook\\.com/.*/reviews", "https://www.facebook.com/pg/example/reviews">>,
         <<"facebook\\.com/pg/.*/reviews", "https://www.facebook.com/pg/example/reviews">>}

\* info['domain'] in src
domain_in(domain, src) ==
    <<domain, src>> \in
        {<<"trustpilot.com", "https://widget.trustpilot.com/bootstrap.js">>,
         <<"google.com", "https://www.google.com/recaptcha/api.js">>}

InitialResults ==
    [review_sources |-> <<>>, diversity_score |-> Frac(0, 1), total_sources |-> 0,
     primary_sources |-> <<>>, secondary_sources |-> <<>>, embedded_widgets |-> <<>>,
     status |-> "checked"]

\* the body of `if re.search(pattern, href):`
add_source(res, platform, href) ==
    LET info == review_platforms[platform]
    IN  [res EXCEPT
            !.review_sources =
                Append(@, [platform |-> platform, url |-> href, weight |-> info.weight]),
            !.primary_sources = IF info.weight >= 4 THEN Append(@, platform) ELSE @,
            !.secondary_sources = IF info.weight >= 4 THEN @ ELSE Append(@, platform)]

\* The (platform, pattern) pairs in the order the two inner loops visit them:
\* for platform, info in self.review_platforms.items():
\*     for pattern in info['patterns']:
RECURSIVE pattern_pairs(_)
pattern_pairs(p) ==
    IF p > Len(PlatformOrder) THEN <<>>
    ELSE LET patterns == review_platforms[PlatformOrder[p]].patterns
         IN  [k \in 1..Len(patterns) |->
                    [platform |-> PlatformOrder[p], pattern |-> patterns[k]]]
             \o pattern_pairs(p + 1)

\* the pairs whose `if re.search(pattern, href)` succeeds, in loop order
matches_of(href) ==
    LET Hit(e) == re_search(e.pattern, href)
    IN  SelectSeq(pattern_pairs(1), Hit)

\* the if-body run for each of them
RECURSIVE add_sources(_, _, _, _)
add_sources(res, href, hits, i) ==
    IF i > Len(hits) THEN res
    ELSE add_sources(add_source(res, hits[i].platform, href), href, hits, i + 1)

\* for link in soup.find_all('a', href=True): href = link['href'].lower()
RECURSIVE scan_links(_, _, _)
scan_links(res, links, i) ==
    IF i > Len(links) THEN res
    ELSE scan_links(add_sources(res, lower(links[i]), matches_of(lower(links[i])), 1),
                    links, i + 1)

\* the platforms whose `if info['domain'] in src` succeeds, in loop order
widgets_of(src) ==
    LET Hit(platform) == domain_in(review_platforms[platform].domain, src)
    IN  SelectSeq(PlatformOrder, Hit)

\* for script in soup.find_all('script', src=True): src = script['src'].lower()
RECURSIVE scan_scripts(_, _, _)
scan_scripts(res, scripts, i) ==
    IF i > Len(scripts) THEN res
    ELSE scan_scripts([res EXCEPT !.embedded_widgets = @ \o widgets_of(lower(scripts[i]))],
                      scripts, i + 1)

\* sum(source['weight'] for source in results['review_sources'])
RECURSIVE sum_weights(_, _)
sum_weights(sources, i) ==
    IF i > Len(sources) THEN 0 ELSE sources[i].weight + sum_weights(sources, i + 1)

\* (weighted_score + platform_variety) / 2 without the two min(..., 1.0)
diversity_score_uncapped(total_weight, total_sources) ==
    FracOver(FracPlus(FracTimes(Frac(total_weight, 10), 10),
                      FracTimes(Frac(total_sources, 5), 10)), 2)

\* the same with platform_variety left without its min(..., 1.0)
diversity_score_halfcapped(total_weight, total_sources) ==
    FracOver(FracPlus(FracTimes(FracMin(Frac(total_weight, 10), Frac(1, 1)), 10),
                      FracTimes(Frac(total_sources, 5), 10)), 2)

\* weighted_score = min(total_weight / 10, 1.0) * 10
\* platform_variety = min(total_sources / 5, 1.0) * 10
\* (weighted_score + platform_variety) / 2
diversity_score(total_weight, total_sources) ==
    FracOver(FracPlus(FracTimes(FracMin(Frac(total_weight, 10), Frac(1, 1)), 10),
                      FracTimes(FracMin(Frac(total_sources, 5), Frac(1, 1)), 10)), 2)

\* the lines under "Calculate diversity metrics"
diversity_metrics(res) ==
    LET total_sources == Len(res.review_sources)
        total_weight == sum_weights(res.review_sources, 1)
    IN  [res EXCEPT
            !.total_sources = total_sources,
            !.diversity_score = IF total_sources > 0
                                THEN diversity_score(total_weight, total_sources)
                                ELSE @]

\* what the fetch of the page does: session.get raises, the status is not 200,
\* response.text() raises, or the page is read
FetchOutcomes == {"get_raises", "not_200", "text_raises", "ok"}

analyze_review_diversity(outcome, links, scripts) ==
    IF outcome \in {"get_raises", "text_raises"}
        THEN [error |-> "str(e)"] @@ InitialResults
    ELSE IF outcome = "not_200" THEN InitialResults
    ELSE diversity_metrics(scan_scripts(scan_links(InitialResults, links, 1), scripts, 1))

MaxLinks == 3
MaxScripts == 1

InitDiversity ==
    /\ div_pc = "called"
    /\ fetch \in FetchOutcomes
    /\ page_links \in IF fetch = "ok" THEN SeqsUpTo(Hrefs, MaxLinks) ELSE {<<>>}
    /\ page_scripts \in IF fetch = "ok" THEN SeqsUpTo(ScriptSrcs, MaxScripts) ELSE {<<>>}
    /\ results = EmptyDict
    /\ NoCall
    /\ NoScorerCall
    /\ NoLevelCall
    /\ NoAnalyzerRun

AnalyzeReviewDiversity ==
    /\ div_pc = "called"
    /\ results' = analyze_review_diversity(fetch, page_links, page_scripts)
    /\ div_pc' = "returned"
    /\ UNCHANGED <<fetch, page_links, page_scripts, total_vars, scorer_vars, level_vars,
                   analyzer_vars>>

NextDiversity == AnalyzeReviewDiversity

SpecDiversity == InitDiversity /\ [][NextDiversity]_vars

----------------------------------------------------------------------------
(* The lines under "Calculate diversity metrics" of                        *)
(* _analyze_review_diversity, run on their own: the call stands at line    *)
(* 126 with the review sources that the link loop matched.                 *)

MaxSources == 5

\* the platforms of the matched links, as indices of PlatformOrder listed in
\* catalog order: one sequence for each multiset of at most MaxSources sources
MatchedPlatforms ==
    {s \in SeqsUpTo(1..Len(PlatformOrder), MaxSources) :
        \A i \in 1..(Len(s) - 1) : s[i] <= s[i + 1]}

\* results once the link loop has appended one source for each of them
RECURSIVE matched_results(_, _, _)
matched_results(res, s, i) ==
    IF i > Len(s) THEN res
    ELSE matched_results(add_source(res, PlatformOrder[s[i]],
                                    review_platforms[PlatformOrder[s[i]]].domain),
                         s, i + 1)

InitMetrics ==
    /\ div_pc = "metrics"
    /\ fetch = "ok"
    /\ page_links = <<>>
    /\ page_scripts = <<>>
    /\ \E s \in MatchedPlatforms : results = matched_results(InitialResults, s, 1)
    /\ NoCall
    /\ NoScorerCall
    /\ NoLevelCall
    /\ NoAnalyzerRun

ComputeDiversityMetrics ==
    /\ div_pc = "metrics"
    /\ results' = diversity_metrics(results)
    /\ div_pc' = "returned"
    /\ UNCHANGED <<fetch, page_links, page_scripts, total_vars, scorer_vars, level_vars,
                   analyzer_vars>>

NextMetrics == ComputeDiversityMetrics

SpecMetrics == InitMetrics /\ [][NextMetrics]_vars

----------------------------------------------------------------------------
(* analyzers/website_security.py and analyzers/social_proof.py: the        *)
(* collectors.  The network is the environment: each probe is answered     *)
(* with status 200, with another status, or by an exception.               *)

\* the urls an analysis is asked for: without a scheme, with a trailing
\* slash, and one that urllib rejects (ValueError: Invalid IPv6 URL)
Urls == {"example.com", "https://example.com/", "https://[example"}

\* url.startswith(('http://', 'https://'))
starts_with_scheme(u) == u \in {"https://example.com/", "https://[example"}

\* if not url.startswith(...): url = 'https://' + url
normalize_url(u) == IF starts_with_scheme(u) THEN u ELSE "https://" \o u

\* url.rstrip('/')
rstrip_slash(u) == IF u = "https://example.com/" THEN "https://example.com" ELSE u

\* urlparse(url) and urljoin(url, path) raise ValueError
urlparse_raises(u) == u = "https://[example"

\* urljoin(url, path) for an absolute path and a url without a path
urljoin(u, path) == rstrip_slash(u) \o path

\* common_paths, team_paths and testimonial_paths
probe_paths ==
    [privacy_policy |-> <<"/privacy", "/privacy-policy", "/privacy-notice",
                          "/legal/privacy">>,
     contact_info |-> <<"/contact", "/contact-us", "/about", "/about-us">>,
     team_presence |-> <<"/team", "/about/team", "/about-us/team", "/our-team",
                         "/about", "/about-us">>,
     testimonials |-> <<"/testimonials", "/reviews", "/case-studies",
                        "/success-stories", "/what-our-customers-say">>]

Collectors == DOMAIN probe_paths

flag_key ==
    [privacy_policy |-> "has_privacy_policy", contact_info |-> "has_contact_page",
     team_presence |-> "has_team_page", testimonials |-> "has_testimonials"]

urls_key ==
    [privacy_policy |-> "policy_urls", contact_info |-> "contact_urls",
     team_presence |-> "team_urls", testimonials |-> "testimonial_urls"]

\* results = {'has_...': False, '..._urls': [], 'status': 'checked'}
initial_probe_results(c) ==
    (flag_key[c] :> FALSE) @@ (urls_key[c] :> <<>>) @@ [status |-> "checked"]

\* full_url = url.rstrip('/') + path   (website_security.py)
\* full_url = urljoin(url, path)       (social_proof.py)
full_url(c, u, path) ==
    IF c \in {"privacy_policy", "contact_info"} THEN rstrip_slash(u) \o path
    ELSE urljoin(u, path)

\* What a probe may do.  On the url urllib rejects, urljoin raises in the
\* social collectors and session.head raises in the security collectors.
ProbeOutcomes(u) ==
    IF urlparse_raises(u) THEN {"raises"} ELSE {"200", "404", "raises"}

\* the probe counts against the bound on answers other than 404
Deviates(u, outcome) == outcome # "404" /\ ~ urlparse_raises(u)

probe_step_flag_only(res, c, u, path, outcome) ==
    IF outcome = "200" THEN [res EXCEPT ![flag_key[c]] = TRUE] ELSE res

\* one iteration of `for path in ...`:
\* if response.status == 200: results[flag] = True; results[urls].append(full_url)
\* except Exception: continue
probe_step(res, c, u, path, outcome) ==
    IF outcome = "200"
        THEN [res EXCEPT ![flag_key[c]] = TRUE,
                         ![urls_key[c]] = Append(@, full_url(c, u, path))]
        ELSE res

next_path_break(i, n, outcome) == IF outcome = "raises" THEN n + 1 ELSE i + 1

\* the loop goes on with the next path, also after `except Exception: continue`
next_path(i, n, outcome) == i + 1

\* the collector is entered
StartCollector(c) ==
    /\ collector' = c
    /\ collector_pc' = "loop"
    /\ path_i' = 1
    /\ probe_results' = initial_probe_results(c)
    /\ probes' = <<>>

\* `return results` to the analyzer that called it
LeaveCollector ==
    /\ collector' = "none"
    /\ collector_pc' = "off"
    /\ path_i' = 0
    /\ probe_results' = EmptyDict
    /\ probes' = <<>>

LoopDone == collector_pc = "loop" /\ path_i > Len(probe_paths[collector])

MaxDeviations == 2

Probe ==
    /\ collector_pc = "loop"
    /\ path_i <= Len(probe_paths[collector])
    /\ \E outcome \in ProbeOutcomes(target) :
        /\ Deviates(target, outcome) => deviations_left > 0
        /\ deviations_left' = IF Deviates(target, outcome)
                              THEN deviations_left - 1 ELSE deviations_left
        /\ probe_results' = probe_step(probe_results, collector, target,
                                       probe_paths[collector][path_i], outcome)
        /\ probes' = Append(probes, [path |-> probe_paths[collector][path_i],
                                     outcome |-> outcome])
        /\ path_i' = next_path(path_i, Len(probe_paths[collector]), outcome)
    /\ UNCHANGED <<collector, collector_pc, url, run_pc, sec_pc, soc_pc, target, partial,
                   security_results, social_results, content_results, analysis>>
    /\ UNCHANGED <<total_vars, scorer_vars, level_vars, diversity_vars>>

\* a collector called on its own returns
CollectorReturn ==
    /\ LoopDone
    /\ sec_pc = "off"
    /\ soc_pc = "off"
    /\ collector_pc' = "returned"
    /\ UNCHANGED <<collector, path_i, probe_results, probes, deviations_left>>
    /\ UNCHANGED <<url, run_pc, sec_pc, soc_pc, target, partial,
                   security_results, social_results, content_results, analysis>>
    /\ UNCHANGED <<total_vars, scorer_vars, level_vars, diversity_vars>>

\* one of the four collectors is called on its own, on a normalized url;
\* every probe may answer in every way
InitCollector ==
    /\ collector \in Collectors
    /\ collector_pc = "loop"
    /\ path_i = 1
    /\ probe_results = initial_probe_results(collector)
    /\ probes = <<>>
    /\ deviations_left = Len(probe_paths[collector])
    /\ target \in {normalize_url(u) : u \in Urls}
    /\ url = "none" /\ run_pc = "off" /\ sec_pc = "off" /\ soc_pc = "off"
    /\ partial = EmptyDict /\ security_results = EmptyDict
    /\ social_results = EmptyDict /\ content_results = EmptyDict
    /\ analysis = EmptyDict
    /\ NoCall
    /\ NoScorerCall
    /\ NoLevelCall
    /\ NoDiversityCall

----------------------------------------------------------------------------
(* WebsiteSecurityAnalyzer.analyze *)

\* the dict both analyzers return from `except Exception as e:`
failure_record(u) ==
    [url |-> u, error |-> "Analysis failed: str(e)", status |-> "failed"]

\* _check_ssl once urlparse has returned: the handshake succeeds or raises
SslOutcomes == {"valid", "raises"}

check_ssl(outcome) ==
    IF outcome = "valid"
        THEN [status |-> "valid", issuer |-> "issuer", expiry |-> "notAfter",
              version |-> "version"]
        ELSE [status |-> "invalid", error |-> "str(e)"]

SecurityHeaders == {"Strict-Transport-Security", "X-Frame-Options",
                    "Content-Security-Policy", "X-XSS-Protection"}

\* the security headers a response may carry
ResponseHeaderSets ==
    {{}, {"Strict-Transport-Security"},
     {"X-Frame-Options", "Content-Security-Policy"}, SecurityHeaders}

\* _check_security_headers: session.head raises, or the response has the headers
check_security_headers(raises, headers) ==
    IF raises THEN [error |-> "str(e)", status |-> "failed"]
    ELSE [has_hsts |-> "Strict-Transport-Security" \in headers,
          has_xframe |-> "X-Frame-Options" \in headers,
          has_content_security |-> "Content-Security-Policy" \in headers,
          has_xss_protection |-> "X-XSS-Protection" \in headers,
          status |-> "checked"]

\* TrustAnalyzer.analyze calls self.security_analyzer.analyze(url): the url is
\* normalized, the session opened and 'url': url evaluated
SecurityAnalyze ==
    /\ run_pc = "security"
    /\ sec_pc = "off"
    /\ target' = normalize_url(url)
    /\ partial' = [url |-> normalize_url(url)]
    /\ sec_pc' = "ssl"
    /\ UNCHANGED <<url, run_pc, soc_pc, collector_vars, security_results, social_results,
                   content_results, analysis>>
    /\ UNCHANGED <<total_vars, scorer_vars, level_vars, diversity_vars>>

\* 'ssl_certificate': await self._check_ssl(url).  urlparse stands outside
\* the try of _check_ssl: its ValueError ends analyze in its except branch.
CheckSsl ==
    /\ sec_pc = "ssl"
    /\ IF urlparse_raises(target)
         THEN /\ security_results' = failure_record(target)
              /\ partial' = EmptyDict
              /\ sec_pc' = "off"
              /\ run_pc' = "social"
              /\ UNCHANGED collector_vars
         ELSE /\ \E outcome \in SslOutcomes :
                    partial' = [ssl_certificate |-> check_ssl(outcome)] @@ partial
              /\ sec_pc' = "privacy"
              /\ StartCollector("privacy_policy")
              /\ UNCHANGED <<run_pc, security_results, deviations_left>>
    /\ UNCHANGED <<url, soc_pc, target, social_results, content_results, analysis>>
    /\ UNCHANGED <<total_vars, scorer_vars, level_vars, diversity_vars>>

\* 'privacy_policy': await self._check_privacy_policy(session, url) returned
PrivacyReturn ==
    /\ sec_pc = "privacy"
    /\ LoopDone
    /\ partial' = [privacy_policy |-> probe_results] @@ partial
    /\ sec_pc' = "contact"
    /\ StartCollector("contact_info")
    /\ UNCHANGED <<url, run_pc, soc_pc, target, deviations_left, security_results,
                   social_results, content_results, analysis>>
    /\ UNCHANGED <<total_vars, scorer_vars, level_vars, diversity_vars>>

\* 'contact_info': await self._check_contact_info(session, url) returned
ContactReturn ==
    /\ sec_pc = "contact"
    /\ LoopDone
    /\ partial' = [contact_info |-> probe_results] @@ partial
    /\ sec_pc' = "headers"
    /\ LeaveCollector
    /\ UNCHANGED <<url, run_pc, soc_pc, target, deviations_left, security_results,
                   social_results, content_results, analysis>>
    /\ UNCHANGED <<total_vars, scorer_vars, level_vars, diversity_vars>>

\* 'security_headers': await self._check_security_headers(session, url), then
\* `return results`
CheckSecurityHeaders ==
    /\ sec_pc = "headers"
    /\ \E raises \in BOOLEAN, headers \in ResponseHeaderSets :
        /\ raises => headers = {}
        /\ security_results' =
                [security_headers |-> check_security_headers(raises, headers)] @@ partial
    /\ partial' = EmptyDict
    /\ sec_pc' = "off"
    /\ run_pc' = "social"
    /\ UNCHANGED <<url, soc_pc, target, collector_vars, social_results, content_results,
                   analysis>>
    /\ UNCHANGED <<total_vars, scorer_vars, level_vars, diversity_vars>>

----------------------------------------------------------------------------
(* SocialProofAnalyzer.analyze *)

\* the methods class SocialProofAnalyzer defines, with _check_review_presence
SocialProofAnalyzerMethods_with_review_presence ==
    {"__init__", "analyze", "_analyze_review_diversity", "_check_team_presence",
     "_check_social_profiles", "_check_testimonials", "_check_review_presence"}

\* the methods class SocialProofAnalyzer defines
SocialProofAnalyzerMethods ==
    {"__init__", "analyze", "_analyze_review_diversity", "_check_team_presence",
     "_check_social_profiles", "_check_testimonials"}

\* self.<name> finds a method; otherwise the lookup raises AttributeError
has_method(name) == name \in SocialProofAnalyzerMethods

social_platforms ==
    [facebook |-> "facebook.com", twitter |-> "twitter.com", linkedin |-> "linkedin.com",
     instagram |-> "instagram.com", youtube |-> "youtube.com"]

SocialOrder == <<"facebook", "twitter", "linkedin", "instagram", "youtube">>

\* the links of the pages _check_social_profiles may read
ProfilePages ==
    {<<>>,
     <<"https://example.com/about">>,
     <<"https://www.facebook.com/example", "https://twitter.com/example",
       "https://www.facebook.com/example">>}

\* domain in href
profile_domain_in(domain, href) ==
    <<domain, href>> \in {<<"facebook.com", "https://www.facebook.com/example">>,
                          <<"twitter.com", "https://twitter.com/example">>}

\* for platform, domain in social_platforms.items():
\*     if domain in href and platform not in results['platforms_found']: ...
profiles_of(found, href) ==
    LET New(platform) == /\ profile_domain_in(social_platforms[platform], href)
                         /\ \A i \in 1..Len(found) : found[i] # platform
    IN  SelectSeq(SocialOrder, New)

\* for link in soup.find_all('a', href=True): href = link['href'].lower()
RECURSIVE scan_profiles(_, _, _)
scan_profiles(found, links, i) ==
    IF i > Len(links) THEN found
    ELSE scan_profiles(found \o profiles_of(found, lower(links[i])), links, i + 1)

check_social_profiles(outcome, links) ==
    LET initial == [has_social_profiles |-> FALSE, platforms_found |-> <<>>,
                    status |-> "checked"]
        found == scan_profiles(<<>>, links, 1)
    IN  IF outcome \in {"get_raises", "text_raises"}
            THEN [error |-> "str(e)"] @@ initial
        ELSE IF outcome = "not_200" THEN initial
        ELSE [initial EXCEPT !.has_social_profiles = found # <<>>,
                             !.platforms_found = found]

\* what a page fetch may do on the url
PageOutcomes(u) == IF urlparse_raises(u) THEN {"get_raises"} ELSE FetchOutcomes

\* TrustAnalyzer.analyze calls self.social_analyzer.analyze(url): the url is
\* normalized, the session opened, 'url': url evaluated and
\* _check_team_presence entered
SocialAnalyze ==
    /\ run_pc = "social"
    /\ soc_pc = "off"
    /\ target' = normalize_url(url)
    /\ partial' = [url |-> normalize_url(url)]
    /\ soc_pc' = "team"
    /\ StartCollector("team_presence")
    /\ UNCHANGED <<url, run_pc, sec_pc, deviations_left, security_results, social_results,
                   content_results, analysis>>
    /\ UNCHANGED <<total_vars, scorer_vars, level_vars, diversity_vars>>

\* 'team_presence': await self._check_team_presence(session, url) returned
TeamReturn ==
    /\ soc_pc = "team"
    /\ LoopDone
    /\ partial' = [team_presence |-> probe_results] @@ partial
    /\ soc_pc' = "profiles"
    /\ LeaveCollector
    /\ UNCHANGED <<url, run_pc, sec_pc, target, deviations_left, security_results,
                   social_results, content_results, analysis>>
    /\ UNCHANGED <<total_vars, scorer_vars, level_vars, diversity_vars>>

\* 'social_profiles': await self._check_social_profiles(session, url), then
\* _check_testimonials is entered
CheckSocialProfiles ==
    /\ soc_pc = "profiles"
    /\ \E outcome \in PageOutcomes(target), links \in ProfilePages :
        /\ outcome # "ok" => links = <<>>
        /\ partial' = [social_profiles |-> check_social_profiles(outcome, links)]
                      @@ partial
    /\ soc_pc' = "testimonials"
    /\ StartCollector("testimonials")
    /\ UNCHANGED <<url, run_pc, sec_pc, target, deviations_left, security_results,
                   social_results, content_results, analysis>>
    /\ UNCHANGED <<total_vars, scorer_vars, level_vars, diversity_vars>>

\* 'testimonials': await self._check_testimonials(session, url) returned
TestimonialsReturn ==
    /\ soc_pc = "testimonials"
    /\ LoopDone
    /\ partial' = [testimonials |-> probe_results] @@ partial
    /\ soc_pc' = "review_presence"
    /\ LeaveCollector
    /\ UNCHANGED <<url, run_pc, sec_pc, target, deviations_left, security_results,
                   social_results, content_results, analysis>>
    /\ UNCHANGED <<total_vars, scorer_vars, level_vars, diversity_vars>>

\* 'review_presence': await self._check_review_presence(session, url).
\* Where the class has the method, its result and that of
\* _analyze_review_diversity complete the literal and `return results` runs;
\* where it has not, the AttributeError of the lookup is caught by
\* `except Exception as e:` and the failure dict is returned.
CheckReviewPresence ==
    /\ soc_pc = "review_presence"
    /\ IF has_method("_check_review_presence")
         THEN \E has_reviews \in BOOLEAN, outcome \in PageOutcomes(target),
                 links \in SeqsUpTo(Hrefs, 1) :
                /\ outcome # "ok" => links = <<>>
                /\ social_results' =
                        [review_presence |-> [has_reviews |-> has_reviews,
                                              status |-> "checked"],
                         review_diversity |-> analyze_review_diversity(outcome, links, <<>>)]
                        @@ partial
         ELSE social_results' = failure_record(target)
    /\ partial' = EmptyDict
    /\ soc_pc' = "off"
    /\ run_pc' = "content"
    /\ UNCHANGED <<url, sec_pc, target, collector_vars, security_results, content_results,
                   analysis>>
    /\ UNCHANGED <<total_vars, scorer_vars, level_vars, diversity_vars>>

----------------------------------------------------------------------------
(* trust_analyzer.py: TrustAnalyzer.analyze *)

\* What self.content_analyzer.analyze(url) returns.  The module
\* analyzers/content_expertise.py is not among the sources; the dicts are
\* those the mapper _map_content_data reads, and a failure dict.
ContentResults ==
    {[documentation |-> [has_documentation |-> TRUE],
      blog_presence |-> [content_freshness |-> "Recent content found"],
      thought_leadership |-> [has_thought_leadership |-> TRUE]],
     [documentation |-> [has_documentation |-> FALSE],
      blog_presence |-> [content_freshness |-> "No recent content"],
      thought_leadership |-> [has_thought_leadership |-> FALSE]],
     [error |-> "Analysis failed: str(e)", status |-> "failed"]}

map_security_data(security) ==
    [ssl_certificate |-> PyDict(Get(security, "ssl_certificate", EmptyDict)),
     security_headers |-> PyDict(Get(security, "security_headers", EmptyDict))]

map_review_data(social) ==
    LET testimonials == Get(social, "testimonials", EmptyDict)
        review_presence == Get(social, "review_presence", EmptyDict)
        review_diversity == Get(social, "review_diversity", EmptyDict)
        has_reviews == \/ Get(testimonials, "has_testimonials", FALSE)
                       \/ Get(review_presence, "has_reviews", FALSE)
        recent_reviews == Get(testimonials, "testimonial_urls", <<>>) # <<>>
        score == Get(review_diversity, "diversity_score", Frac(0, 1))
        primary_sources == Len(Get(review_diversity, "primary_sources", <<>>))
        total_sources == Get(review_diversity, "total_sources", 0)
        has_embedded_widgets == Get(review_diversity, "embedded_widgets", <<>>) # <<>>
        diverse_reviews == \/ total_sources >= 3
                           \/ (primary_sources >= 2 /\ has_embedded_widgets)
                           \/ FracGE(score, 7)
    IN  [has_reviews |-> has_reviews,
         recent_reviews |-> recent_reviews,
         diverse_reviews |-> diverse_reviews,
         review_metrics |-> [diversity_score |-> score,
                             primary_sources |-> primary_sources,
                             total_sources |-> total_sources,
                             has_widgets |-> has_embedded_widgets]]

map_business_data(security, social) ==
    LET contact_info == Get(security, "contact_info", EmptyDict)
        team_presence == Get(social, "team_presence", EmptyDict)
    IN  [has_credentials |-> Get(team_presence, "has_team_page", FALSE),
         contact_verified |-> Get(contact_info, "has_contact_page", FALSE)]

map_content_data(content) ==
    [has_resources |->
        Get(Get(content, "documentation", EmptyDict), "has_documentation", FALSE),
     recent_content |->
        Get(Get(content, "blog_presence", EmptyDict), "content_freshness", "None")
            = "Recent content found",
     expert_content |->
        Get(Get(content, "thought_leadership", EmptyDict),
            "has_thought_leadership", FALSE)]

map_transparency_data(security) ==
    LET privacy == Get(security, "privacy_policy", EmptyDict)
    IN  [has_privacy_policy |-> Get(privacy, "has_privacy_policy", FALSE),
         has_terms |-> Get(privacy, "policy_urls", <<>>) # <<>>,
         clear_pricing |-> FALSE]

\* the details stored over the result's components
attach_details_as_components(trust_score, social) ==
    IF "review_diversity" \in DOMAIN social
        THEN [trust_score EXCEPT !.components = social.review_diversity]
        ELSE trust_score

\* if 'review_diversity' in social_results:
\*     trust_score['review_diversity_details'] = social_results['review_diversity']
attach_details(trust_score, social) ==
    IF "review_diversity" \in DOMAIN social
        THEN ("review_diversity_details" :> social.review_diversity) @@ trust_score
        ELSE trust_score

\* content_results = await self.content_analyzer.analyze(url)
ContentAnalyze ==
    /\ run_pc = "content"
    /\ content_results' \in ContentResults
    /\ run_pc' = "map"
    /\ UNCHANGED <<url, sec_pc, soc_pc, target, partial, collector_vars, security_results,
                   social_results, analysis>>
    /\ UNCHANGED <<total_vars, scorer_vars, level_vars, diversity_vars>>

\* the five _map_* calls; calculate_total_score is entered with their results
MapResults ==
    /\ run_pc = "map"
    /\ security_data' = map_security_data(security_results)
    /\ review_data' = map_review_data(social_results)
    /\ business_data' = map_business_data(security_results, social_results)
    /\ content_data' = map_content_data(content_results)
    /\ transparency_data' = map_transparency_data(security_results)
    /\ pc' = "called"
    /\ run_pc' = "score"
    /\ UNCHANGED <<result, url, sec_pc, soc_pc, target, partial, collector_vars,
                   security_results, social_results, content_results, analysis>>
    /\ UNCHANGED <<scorer_vars, level_vars, diversity_vars>>

\* calculate_total_score returned (action CalculateTotalScore); the details
\* are attached to the dict it returned
AttachDiversityDetails ==
    /\ run_pc = "score"
    /\ pc = "returned"
    /\ result' = attach_details(result, social_results)
    /\ run_pc' = "return"
    /\ UNCHANGED <<pc, security_data, review_data, business_data, content_data,
                   transparency_data>>
    /\ UNCHANGED <<url, sec_pc, soc_pc, target, partial, collector_vars, security_results,
                   social_results, content_results, analysis>>
    /\ UNCHANGED <<scorer_vars, level_vars, diversity_vars>>

\* return {'url': url, 'trust_score': trust_score, 'raw_results': {...}}
ReturnAnalysis ==
    /\ run_pc = "return"
    /\ analysis' = [url |-> url, trust_score |-> result,
                    raw_results |-> [security |-> security_results,
                                     social |-> social_results,
                                     content |-> content_results]]
    /\ run_pc' = "done"
    /\ UNCHANGED <<url, sec_pc, soc_pc, target, partial, collector_vars, security_results,
                   social_results, content_results>>
    /\ UNCHANGED <<total_vars, scorer_vars, level_vars, diversity_vars>>

\* TrustAnalyzer.analyze(url) is called
InitAnalyze ==
    /\ url \in Urls
    /\ run_pc = "security"
    /\ sec_pc = "off" /\ soc_pc = "off" /\ target = "none" /\ partial = EmptyDict
    /\ NoCollectorCall
    /\ deviations_left = MaxDeviations
    /\ security_results = EmptyDict /\ social_results = EmptyDict
    /\ content_results = EmptyDict /\ analysis = EmptyDict
    /\ NoCall
    /\ NoScorerCall
    /\ NoLevelCall
    /\ NoDiversityCall

\* a whole analysis, or one collector on its own
InitAnalyzer == InitAnalyze \/ InitCollector

NextAnalyzer ==
    \/ SecurityAnalyze
    \/ CheckSsl
    \/ Probe
    \/ PrivacyReturn
    \/ ContactReturn
    \/ CheckSecurityHeaders
    \/ SocialAnalyze
    \/ TeamReturn
    \/ CheckSocialProfiles
    \/ TestimonialsReturn
    \/ CheckReviewPresence
    \/ ContentAnalyze
    \/ MapResults
    \/ CalculateTotalScore
    \/ AttachDiversityDetails
    \/ ReturnAnalysis
    \/ CollectorReturn

SpecAnalyzer == InitAnalyzer /\ [][NextAnalyzer]_vars

----------------------------------------------------------------------------
(* TrustAnalyzer.analyze from the line where the three analyzers have      *)
(* returned, over both shapes of dict an analyzer's return statements      *)
(* build: the results literal, and the failure dict of the except branch.  *)

\* what a path-probing collector returns when no path, or its first path,
\* answered 200
ProbeReturns(c) ==
    {initial_probe_results(c),
     probe_step(initial_probe_results(c), c, "https://example.com",
                probe_paths[c][1], "200")}

\* WebsiteSecurityAnalyzer.analyze: `return results` and the except branch
SecurityReturns ==
    {[url |-> "https://example.com", ssl_certificate |-> check_ssl(o),
      privacy_policy |-> pp, contact_info |-> ci,
      security_headers |-> check_security_headers(FALSE, h)] :
        o \in SslOutcomes, pp \in ProbeReturns("privacy_policy"),
        ci \in ProbeReturns("contact_info"), h \in {{}, SecurityHeaders}}
    \cup {failure_record("https://example.com")}

\* what _analyze_review_diversity returns on a page of at most one link and
\* one script, and on a failed fetch
DiversityReturns ==
    {analyze_review_diversity("ok", l, s) :
        l \in SeqsUpTo(Hrefs, 1), s \in SeqsUpTo(ScriptSrcs, 1)}
    \cup {analyze_review_diversity(o, <<>>, <<>>) : o \in FetchOutcomes \ {"ok"}}

\* SocialProofAnalyzer.analyze: `return results` and the except branch
SocialReturns ==
    {[url |-> "https://example.com", team_presence |-> tp,
      social_profiles |-> check_social_profiles("ok", <<>>), testimonials |-> te,
      review_presence |-> [has_reviews |-> rp, status |-> "checked"],
      review_diversity |-> d] :
        tp \in ProbeReturns("team_presence"), te \in ProbeReturns("testimonials"),
        rp \in BOOLEAN, d \in DiversityReturns}
    \cup {failure_record("https://example.com")}

InitOrchestrate ==
    /\ url = "example.com"
    /\ run_pc = "map"
    /\ security_results \in SecurityReturns
    /\ social_results \in SocialReturns
    /\ content_results \in ContentResults
    /\ sec_pc = "off" /\ soc_pc = "off" /\ target = "none" /\ partial = EmptyDict
    /\ NoCollectorCall
    /\ deviations_left = 0
    /\ analysis = EmptyDict
    /\ NoCall
    /\ NoScorerCall
    /\ NoLevelCall
    /\ NoDiversityCall

NextOrchestrate ==
    \/ MapResults
    \/ CalculateTotalScore
    \/ AttachDiversityDetails
    \/ ReturnAnalysis

SpecOrchestrate == InitOrchestrate /\ [][NextOrchestrate]_vars

----------------------------------------------------------------------------
(* Properties.  The definitions below restate the rubric independently of  *)
(* the scorers above: a signal passes when its key is present and true.    *)

IsTrue(d, k) == k \in DOMAIN d /\ d[k]

TrueCount(d, K) == Cardinality({k \in K : IsTrue(d, k)})

SslIsValid(sec) ==
    /\ "ssl_certificate" \in DOMAIN sec
    /\ "status" \in DOMAIN sec.ssl_certificate.items
    /\ sec.ssl_certificate.items.status = "valid"

HeadersOf(sec) ==
    IF "security_headers" \in DOMAIN sec THEN sec.security_headers.items ELSE EmptyDict

KeysOf(cat) ==
    CASE cat = "reviews_ratings" -> ReviewKeys
      [] cat = "business_verification" -> BusinessKeys
      [] cat = "content_quality" -> ContentKeys
      [] cat = "transparency" -> TransparencyKeys

\* C1: whatever keys are present or absent and whatever their boolean values,
\* the ScoreComponent a category scorer returns has 0 <= score <= max_score.
C1_ScoreWithinMax ==
    scorer_pc = "returned" =>
        /\ 0 <= component.score
        /\ component.score <= component.max_score

\* C1 witness: a scorer returned a component at its maximum, from a dict with
\* every signal true.
C1_Witness ==
    /\ scorer_pc = "returned"
    /\ category = "business_verification"
    /\ component.score = component.max_score
    /\ component.max_score = 10

\* C2: calculate_total_score returns total_score = 100 * (sum of the component
\* scores) / (sum of the component max_scores), the denominator is 70 on every
\* call (never zero), and 0 <= total_score <= 100.
C2_TotalWithinHundred ==
    pc = "returned" =>
        LET c == result.components
            sum == c.technical_security.score + c.reviews_ratings.score
                   + c.business_verification.score + c.content_quality.score
                   + c.transparency.score
            max == c.technical_security.max_score + c.reviews_ratings.max_score
                   + c.business_verification.max_score + c.content_quality.max_score
                   + c.transparency.max_score
        IN  /\ max = 70
            /\ result.total_score.den = max
            /\ result.total_score.num = 100 * sum
            /\ 0 <= result.total_score.num
            /\ result.total_score.num <= 100 * result.total_score.den

\* C2 witness: the call with every sub-check passing returned 69 of 70.
C2_Witness ==
    /\ pc = "returned"
    /\ result.total_score = Frac(69 * 100, 70)

\* a fraction rounded to two decimals, in hundredths
Hundredths(x) == (200 * x.num + x.den) \div (2 * x.den)

AllTrueExceptPricing ==
    /\ security_data = [ssl_certificate |-> PyDict([status |-> "valid"]),
                        security_headers |-> PyDict([k \in HeaderKeys |-> TRUE])]
    /\ review_data = [k \in ReviewKeys |-> TRUE]
    /\ business_data = [k \in BusinessKeys |-> TRUE]
    /\ content_data = [k \in ContentKeys |-> TRUE]
    /\ transparency_data = [k \in TransparencyKeys |-> k # "clear_pricing"]

AllFailing ==
    /\ ~SslIsValid(security_data)
    /\ TrueCount(HeadersOf(security_data), HeaderKeys) = 0
    /\ TrueCount(review_data, ReviewKeys) = 0
    /\ TrueCount(business_data, BusinessKeys) = 0
    /\ TrueCount(content_data, ContentKeys) = 0
    /\ TrueCount(transparency_data, TransparencyKeys) = 0

\* C4: when every signal of every mapping is false or absent, the raw sum is 5
\* of 70, total_score is 500/70 (7.14), the level is 'Needs Improvement' and
\* there are exactly 13 recommendations.
C4_AllFailingExample ==
    (pc = "returned" /\ AllFailing) =>
        /\ result.total_score = Frac(5 * 100, 70)
        /\ Hundredths(result.total_score) = 714
        /\ result.trust_level = "Needs Improvement"
        /\ Len(result.recommendations) = 13

\* C4 witness: an all-failing call mixing absent keys (empty dicts, no
\* 'ssl_certificate' entry) with keys that are present and false.
C4_Witness ==
    /\ pc = "returned"
    /\ AllFailing
    /\ review_data = EmptyDict
    /\ "ssl_certificate" \notin DOMAIN security_data
    /\ DOMAIN content_data = ContentKeys

ReviewChecks ==
    << <<"has_reviews", "Implement a review system">>,
       <<"recent_reviews", "Encourage recent reviews">>,
       <<"diverse_reviews", "Encourage reviews from diverse sources">> >>
BusinessChecks ==
    << <<"has_credentials", "Add business verification credentials">>,
       <<"contact_verified", "Add verified contact information">> >>
ContentChecks ==
    << <<"has_resources", "Add high-quality resources and documentation">>,
       <<"recent_content", "Update content regularly">>,
       <<"expert_content", "Add expert-level content">> >>
TransparencyChecks ==
    << <<"has_privacy_policy", "Add clear privacy policy">>,
       <<"has_terms", "Add clear terms and conditions">>,
       <<"clear_pricing", "Add clear pricing information">> >>

FailingRecs(d, checks) ==
    LET Failing(e) == ~IsTrue(d, e[1])
        failing == SelectSeq(checks, Failing)
    IN  [i \in 1..Len(failing) |-> failing[i][2]]

TechnicalRecs(sec) ==
    (IF SslIsValid(sec) THEN <<>> ELSE <<"Implement HTTPS with a valid SSL certificate">>)
    \o (IF TrueCount(HeadersOf(sec), HeaderKeys) < 4
        THEN <<"Implement missing security headers">> ELSE <<>>)

\* C6: the returned recommendations are the five components' lists concatenated
\* in the order technical_security, reviews_ratings, business_verification,
\* content_quality, transparency, and each component's list has one fixed entry
\* per failing sub-check, in check order, and none for a passing one.
C6_RecommendationsConcatenated ==
    pc = "returned" =>
        LET c == result.components
        IN  /\ c.technical_security.recommendations = TechnicalRecs(security_data)
            /\ c.reviews_ratings.recommendations = FailingRecs(review_data, ReviewChecks)
            /\ c.business_verification.recommendations
                    = FailingRecs(business_data, BusinessChecks)
            /\ c.content_quality.recommendations = FailingRecs(content_data, ContentChecks)
            /\ c.transparency.recommendations
                    = FailingRecs(transparency_data, TransparencyChecks)
            /\ result.recommendations =
                    c.technical_security.recommendations
                    \o c.reviews_ratings.recommendations
                    \o c.business_verification.recommendations
                    \o c.content_quality.recommendations
                    \o c.transparency.recommendations

\* C6 witness: a call with failing sub-checks in the first and the last
\* category and passing ones in between.
C6_Witness ==
    /\ pc = "returned"
    /\ result.recommendations =
          <<"Implement missing security headers", "Encourage recent reviews",
            "Add clear terms and conditions", "Add clear pricing information">>

\* C7: no category scorer ever raises, whatever the type or shape of the values
\* in its input mapping.
C7_NeverRaises == scorer_pc # "raised"

\* C8: the level is decided by the score with inclusive lower bounds: >= 90
\* Exceptional, [80, 90) High, [70, 80) Good, [60, 70) Moderate, < 60 Needs
\* Improvement, both for _categorize_trust_level on every score in hundredths
\* and for the trust_level calculate_total_score returns; 90.0 is Exceptional,
\* 89.99 and 80.0 are High, 59.99 is Needs Improvement.
InBand(x, label) ==
    /\ (x.num >= 90 * x.den) <=> (label = "Exceptional Trust")
    /\ (x.num >= 80 * x.den /\ x.num < 90 * x.den) <=> (label = "High Trust")
    /\ (x.num >= 70 * x.den /\ x.num < 80 * x.den) <=> (label = "Good Trust")
    /\ (x.num >= 60 * x.den /\ x.num < 70 * x.den) <=> (label = "Moderate Trust")
    /\ (x.num < 60 * x.den) <=> (label = "Needs Improvement")

C8_TrustLevelBands ==
    /\ level_pc = "returned" => InBand(level_score, level_label)
    /\ pc = "returned" => InBand(result.total_score, result.trust_level)
    /\ (level_pc = "returned" /\ level_score = Frac(9000, 100))
            => level_label = "Exceptional Trust"
    /\ (level_pc = "returned" /\ level_score = Frac(8999, 100))
            => level_label = "High Trust"
    /\ (level_pc = "returned" /\ level_score = Frac(8000, 100))
            => level_label = "High Trust"
    /\ (level_pc = "returned" /\ level_score = Frac(5999, 100))
            => level_label = "Needs Improvement"

\* C8 witness: _categorize_trust_level returned for 89.99, just under a bound.
C8_Witness ==
    /\ level_pc = "returned"
    /\ level_score = Frac(8999, 100)
    /\ level_label = "High Trust"

\* d with d[k] = v, the key added when it is missing
SetKey(d, k, v) == [x \in DOMAIN d \cup {k} |-> IF x = k THEN v ELSE d[x]]

\* the arguments of the call with one failing sub-check made passing
WithSslValid(sec) == SetKey(sec, "ssl_certificate", PyDict([status |-> "valid"]))

WithHeader(sec, k) ==
    SetKey(sec, "security_headers", PyDict(SetKey(HeadersOf(sec), k, TRUE)))

BandRank(label) ==
    CASE label = "Needs Improvement" -> 0
      [] label = "Moderate Trust" -> 1
      [] label = "Good Trust" -> 2
      [] label = "High Trust" -> 3
      [] label = "Exceptional Trust" -> 4

\* the second result is not below the first, in score and in band
NotLower(first, second) ==
    /\ FracLeq(first.total_score, second.total_score)
    /\ BandRank(first.trust_level) <= BandRank(second.trust_level)

\* C9: making one failing sub-check (SSL validity, a header flag or a boolean
\* signal, false or absent) pass and leaving the rest alone never lowers
\* total_score and never lowers the trust_level band.
C9_Monotone ==
    pc = "returned" =>
        /\ ~SslIsValid(security_data) =>
                NotLower(result, calculate_total_score(WithSslValid(security_data),
                    review_data, business_data, content_data, transparency_data))
        /\ \A k \in HeaderKeys : ~IsTrue(HeadersOf(security_data), k) =>
                NotLower(result, calculate_total_score(WithHeader(security_data, k),
                    review_data, business_data, content_data, transparency_data))
        /\ \A k \in ReviewKeys : ~IsTrue(review_data, k) =>
                NotLower(result, calculate_total_score(security_data,
                    SetKey(review_data, k, TRUE), business_data, content_data,
                    transparency_data))
        /\ \A k \in BusinessKeys : ~IsTrue(business_data, k) =>
                NotLower(result, calculate_total_score(security_data, review_data,
                    SetKey(business_data, k, TRUE), content_data, transparency_data))
        /\ \A k \in ContentKeys : ~IsTrue(content_data, k) =>
                NotLower(result, calculate_total_score(security_data, review_data,
                    business_data, SetKey(content_data, k, TRUE), transparency_data))
        /\ \A k \in TransparencyKeys : ~IsTrue(transparency_data, k) =>
                NotLower(result, calculate_total_score(security_data, review_data,
                    business_data, content_data, SetKey(transparency_data, k, TRUE)))

\* C9 witness: a call whose review_data is empty and where one absent review
\* signal set to true lifts the result into the next band.
C9_Witness ==
    /\ pc = "returned"
    /\ review_data = EmptyDict
    /\ BandRank(result.trust_level)
         < BandRank(calculate_total_score(security_data,
                        SetKey(review_data, "has_reviews", TRUE), business_data,
                        content_data, transparency_data).trust_level)

Min(a, b) == IF a <= b THEN a ELSE b

WeightsOf(sources) == [i \in 1..Len(sources) |-> sources[i].weight]

\* C10: after a successful fetch, diversity_score is 0 when total_sources is 0
\* and otherwise (min(total_weight/10, 1)*10 + min(total_sources/5, 1)*10)/2,
\* that is (min(total_weight, 10) + min(2*total_sources, 10))/2, with
\* total_weight the sum of the weights of all review_sources entries; sources
\* of weights 5, 4 and 3 give 8.0.
C10_DiversityScore ==
    (div_pc = "returned" /\ fetch = "ok") =>
        LET n == results.total_sources
            w == sum_weights(results.review_sources, 1)
        IN  /\ n = Len(results.review_sources)
            /\ n = 0 => results.diversity_score = Frac(0, 1)
            /\ n > 0 => FracEq(results.diversity_score,
                               Frac(Min(w, 10) + Min(2 * n, 10), 2))
            /\ WeightsOf(results.review_sources) = <<5, 4, 3>>
                    => FracEq(results.diversity_score, Frac(8, 1))

\* C10 witness: a page with a trustpilot, a bbb and an upper-case yelp link gave
\* three sources of weights 5, 4 and 3 and the score 8.0.
C10_Witness ==
    /\ div_pc = "returned"
    /\ fetch = "ok"
    /\ Len(page_links) = 3
    /\ page_links[3] = "HTTPS://WWW.YELP.COM/BIZ/EXAMPLE"
    /\ WeightsOf(results.review_sources) = <<5, 4, 3>>
    /\ FracEq(results.diversity_score, Frac(8, 1))


\* results with one more matched source of the platform, metrics recomputed
WithOneMore(res, platform) ==
    diversity_metrics(add_source([res EXCEPT !.diversity_score = Frac(0, 1)],
                                 platform, review_platforms[platform].domain))

ScoreInRange(x) == 0 <= x.num /\ x.num <= 10 * x.den

\* C11: for every multiset of matched sources of the catalog, diversity_score
\* lies in [0, 10]; one more matched source of any platform never lowers it
\* (and keeps it in [0, 10]); and it is 10 exactly when the total weight is at
\* least 10 and there are at least 5 sources.
C11_DiversityRangeMonotone ==
    div_pc = "returned" =>
        LET n == results.total_sources
            w == sum_weights(results.review_sources, 1)
        IN  /\ ScoreInRange(results.diversity_score)
            /\ FracEq(results.diversity_score, Frac(10, 1)) <=> (w >= 10 /\ n >= 5)
            /\ \A p \in DOMAIN review_platforms :
                    LET more == WithOneMore(results, p).diversity_score
                    IN  /\ FracLeq(results.diversity_score, more)
                        /\ ScoreInRange(more)

\* C11 witness: five facebook links (the lowest weight, 2 each) returned the
\* score 10, which one facebook link alone does not reach.
C11_Witness ==
    /\ div_pc = "returned"
    /\ results.total_sources = 5
    /\ sum_weights(results.review_sources, 1) = 10
    /\ FracEq(results.diversity_score, Frac(10, 1))
    /\ ~ FracEq(WithOneMore(InitialResults, "facebook").diversity_score, Frac(10, 1))


\* the number of positions of a sequence holding x
Occurrences(s, x) == Cardinality({i \in 1..Len(s) : s[i] = x})

InSeq(s, x) == \E i \in 1..Len(s) : s[i] = x

\* C12: in every returned result each platform appears at most once in
\* primary_sources and at most once in secondary_sources, primary_sources
\* holds only platforms of weight >= 4, secondary_sources only platforms of
\* weight < 4, and no platform is in both.
C12_SourcesDistinct ==
    div_pc = "returned" =>
        \A p \in DOMAIN review_platforms :
            /\ Occurrences(results.primary_sources, p) <= 1
            /\ Occurrences(results.secondary_sources, p) <= 1
            /\ InSeq(results.primary_sources, p) => review_platforms[p].weight >= 4
            /\ InSeq(results.secondary_sources, p) => review_platforms[p].weight < 4
            /\ ~ (InSeq(results.primary_sources, p) /\ InSeq(results.secondary_sources, p))

\* C13: _analyze_review_diversity always returns, and when the fetch failed
\* (session.get raised or the status was not 200) the result has
\* total_sources 0, diversity_score 0, four empty lists and an 'error' key.
C13_FailedFetchMarked ==
    (div_pc = "returned" /\ fetch \in {"get_raises", "not_200"}) =>
        /\ results.total_sources = 0
        /\ results.diversity_score = Frac(0, 1)
        /\ results.review_sources = <<>>
        /\ results.primary_sources = <<>>
        /\ results.secondary_sources = <<>>
        /\ results.embedded_widgets = <<>>
        /\ "error" \in DOMAIN results

\* the links of the page that match some pattern of the platform
LinksMatching(links, p) ==
    {i \in 1..Len(links) :
        \E k \in 1..Len(review_platforms[p].patterns) :
            re_search(review_platforms[p].patterns[k], lower(links[i]))}

\* C16: a platform has as many review_sources entries as there are links that
\* match it (a link adds at most one entry per platform), total_sources is the
\* length of review_sources, and it never exceeds links x catalog platforms.
C16_OneEntryPerLinkAndPlatform ==
    (div_pc = "returned" /\ fetch = "ok") =>
        /\ \A p \in DOMAIN review_platforms :
                Cardinality({i \in 1..Len(results.review_sources) :
                                results.review_sources[i].platform = p})
                    = Cardinality(LinksMatching(page_links, p))
        /\ results.total_sources = Len(results.review_sources)
        /\ results.total_sources
                <= Len(page_links) * Cardinality(DOMAIN review_platforms)


\* C14: the step of TrustAnalyzer.analyze that attaches
\* 'review_diversity_details' leaves total_score, trust_level, components and
\* recommendations as calculate_total_score returned them, whatever the
\* diversity data is.
C14_AttachKeepsScore ==
    [][(run_pc = "score" /\ run_pc' = "return") =>
            /\ result'.total_score = result.total_score
            /\ result'.trust_level = result.trust_level
            /\ result'.components = result.components
            /\ result'.recommendations = result.recommendations]_vars

\* C14 witness: the details of a page with a matched review source were
\* attached to the result.
C14_Witness ==
    /\ run_pc = "return"
    /\ "review_diversity_details" \in DOMAIN result
    /\ result.review_diversity_details.total_sources > 0
    /\ result.review_diversity_details = social_results.review_diversity


\* the analysis has come to its result
Scored == run_pc \in {"return", "done"}

\* a state from which nothing more is to be done
Finished == run_pc = "done" \/ collector_pc = "returned"

\* C15: in the four path-probing collectors every path is probed in order
\* whichever probes raised, the collector returns, and its has_* flag is true
\* exactly when a probe answered 200; a failed _check_security_headers or
\* _check_ssl gives a record scored as 0 headers / invalid SSL; no exception
\* escapes and every unfinished analysis can go on to the scoring step.
C15_ProbeFailureIsolated ==
    /\ collector_pc \in {"loop", "returned"} =>
            /\ Len(probes) = path_i - 1
            /\ \A i \in 1..Len(probes) : probes[i].path = probe_paths[collector][i]
            /\ probe_results[flag_key[collector]]
                    <=> \E i \in 1..Len(probes) : probes[i].outcome = "200"
    /\ collector_pc = "returned" => Len(probes) = Len(probe_paths[collector])
    /\ (Scored /\ "security_headers" \in DOMAIN security_results) =>
            LET ssl == security_results.ssl_certificate
                headers == security_results.security_headers
                technical == result.components.technical_security
            IN  /\ headers.status = "failed" =>
                        technical.score = IF ssl.status = "valid" THEN 10 ELSE 5
                /\ ssl.status = "invalid" =>
                        technical.score = 5 + TrueCount(headers, HeaderKeys)
    /\ pc # "raised"
    /\ ~ Finished => ENABLED NextAnalyzer

\* C15 witness: _check_team_presence returned after a first probe that raised
\* and a second that answered 200: six probes made, the flag set.
C15_Witness ==
    /\ collector_pc = "returned"
    /\ collector = "team_presence"
    /\ Len(probes) = 6
    /\ probes[1].outcome = "raises"
    /\ probes[2].outcome = "200"
    /\ probe_results.has_team_page
    /\ probe_results.team_urls = <<"https://example.com/about/team">>

\* the keys of the results literal evaluated when a sub-check is reached
KeysBefore ==
    [team |-> {"url"},
     profiles |-> {"url", "team_presence"},
     testimonials |-> {"url", "team_presence", "social_profiles"},
     review_presence |-> {"url", "team_presence", "social_profiles", "testimonials"}]

\* C17: SocialProofAnalyzer.analyze runs team_presence, social_profiles and
\* testimonials in this order, fails at review_presence and returns the
\* failure dict {url, error, status: 'failed'} without 'review_diversity'; so
\* no run of TrustAnalyzer.analyze attaches 'review_diversity_details', the
\* reviews_ratings score is 0 and has_credentials is false.
C17_SocialAnalysisAlwaysFails ==
    /\ soc_pc # "off" => DOMAIN partial = KeysBefore[soc_pc]
    /\ run_pc \in {"content", "map", "score", "return", "done"} =>
            /\ DOMAIN social_results = {"url", "error", "status"}
            /\ social_results.status = "failed"
            /\ social_results.url = normalize_url(url)
    /\ run_pc \in {"score", "return", "done"} =>
            /\ ~ business_data.has_credentials
            /\ review_data = [has_reviews |-> FALSE, recent_reviews |-> FALSE,
                              diverse_reviews |-> FALSE,
                              review_metrics |-> review_data.review_metrics]
    /\ Scored =>
            /\ "review_diversity_details" \notin DOMAIN result
            /\ result.components.reviews_ratings.score = 0

\* C17 witness: an analysis returned with the failure dict as social result
\* and a reviews_ratings score of 0.
C17_Witness ==
    /\ run_pc = "done"
    /\ analysis.raw_results.social.status = "failed"
    /\ "review_diversity_details" \notin DOMAIN analysis.trust_score
    /\ analysis.trust_score.components.reviews_ratings.score = 0
    /\ "contact_info" \in DOMAIN analysis.raw_results.security
    /\ analysis.raw_results.security.contact_info.has_contact_page

FlagMatchesUrls(privacy) == privacy.has_privacy_policy <=> privacy.policy_urls # <<>>

\* C18: during and after the probes of _check_privacy_policy,
\* has_privacy_policy is true exactly when policy_urls is non-empty; the
\* mapped transparency signals have has_terms = has_privacy_policy and
\* clear_pricing false; the transparency score of an analysis is 0 or 10.
C18_TransparencyZeroOrTen ==
    /\ (collector = "privacy_policy" /\ collector_pc \in {"loop", "returned"}) =>
            FlagMatchesUrls(probe_results)
    /\ "privacy_policy" \in DOMAIN partial => FlagMatchesUrls(partial.privacy_policy)
    /\ "privacy_policy" \in DOMAIN security_results =>
            FlagMatchesUrls(security_results.privacy_policy)
    /\ run_pc \in {"score", "return", "done"} =>
            /\ transparency_data.has_terms = transparency_data.has_privacy_policy
            /\ ~ transparency_data.clear_pricing
    /\ Scored => result.components.transparency.score \in {0, 10}

\* C18 witness: an analysis whose privacy probe of the second path answered
\* 200 returned the transparency score 10.
C18_Witness ==
    /\ run_pc = "done"
    /\ "privacy_policy" \in DOMAIN analysis.raw_results.security
    /\ analysis.raw_results.security.privacy_policy.policy_urls
            = <<"https://example.com/privacy-policy">>
    /\ analysis.trust_score.components.transparency.score = 10

====
